---- MODULE Spec2Model ----
(***************************************************************************)
(* TimeoutScheduler (src/src/index.ts, lines 1-531): the task registry,    *)
(* the mode selector, the execution cycle, the budget controller, the      *)
(* batching gate and the teardown/handoff, together with the host          *)
(* primitives the engine drives (requestAnimationFrame, the native         *)
(* setTimeout, scheduler.postTask).                                        *)
(*                                                                         *)
(* The engine is single-threaded: a handler runs to completion, except     *)
(* that a task callback is user code which may call the engine's public    *)
(* operations before it returns.  Every handler is therefore cut at the    *)
(* callback boundaries: one action runs the handler's code up to the next  *)
(* callback invocation, the public operations may be called while the      *)
(* callback runs, and CallbackReturn runs the handler's code that follows  *)
(* the callback up to the next invocation or to the handler's end.         *)
(*                                                                         *)
(* Time is kept relative to the present: the code reads the clock only to  *)
(* compare it with a stored timestamp (executeAt <= frameStart,            *)
(* executeAt - now, now - frameStart), so a task's executeAt and a         *)
(* timer's fireAt are stored as the time left until they are reached       *)
(* (0 or less: reached), a cycle's frameStart as the time elapsed since,   *)
(* performance.now() is 0, and AdvanceTime moves every stored time by one  *)
(* tick.                                                                   *)
(***************************************************************************)
EXTENDS Integers, Sequences, FiniteSets, TLC

\* ---------------------------------------------------------------- bounds
MaxTasks == 2
MaxDelay == 1
MaxBudget == 2
MaxDrain == 5
MaxFrameTasks == 12
MaxEngines == 2
MaxRestores == 2

\* -------------------------------------------------------------- constants
NoHandle == 0
FrameTimeBudget == 1
TickInterval == 1

VARIABLES
    hidden,                 \* document.hidden
    config,                 \* the constructor's configuration
    isPostTaskSupported,    \* scheduler.postTask exists on the host
    host,                   \* which of window.performance and
                            \* window.requestAnimationFrame the host provides
    engine,                 \* "none" before new TimeoutScheduler(), then
                            \* "created", or "failed" if the constructor threw
    isOverridden,
    taskIdCounter,
    taskQueue,              \* Map<number, ScheduledTask>, iterated in id order
    currentSchedulingMode,
    currentTasksPerFrame,
    animationFrameId,
    backgroundTickerId,
    published,              \* the value held by pendingTaskCountSubject
    destroyed,              \* destroy() ran: listener removed, subject completed
    rafs,                   \* host: outstanding requestAnimationFrame registrations
    timers,                 \* host: outstanding native timers
    postTasks,              \* host: outstanding scheduler.postTask dispatches (task ids)
    frame,                  \* the handler in progress and its running callback
    history,                \* per issued id: its attributes and what happened to it
    lateAborts,             \* host: the dispatches whose abort came too late to
                            \* stop them (pending), and the tasks such a
                            \* dispatch has run (fired)
    cycles,                 \* number of execution cycles begun (drain scenario only)
    interception            \* the global timer entry points and, per engine
                            \* instance, what it holds of them (scenario of
                            \* several instances only)

vars == <<hidden, config, isPostTaskSupported, host, engine, isOverridden, taskIdCounter,
          taskQueue, currentSchedulingMode, currentTasksPerFrame, animationFrameId,
          backgroundTickerId, published, destroyed, rafs, timers, postTasks, frame,
          history, lateAborts, cycles, interception>>

\* ---------------------------------------------------------------- helpers
Max(a, b) == IF a >= b THEN a ELSE b

Min(a, b) == IF a <= b THEN a ELSE b

RECURSIVE SetToSeq(_)
SetToSeq(S) ==
    IF S = {} THEN <<>>
    ELSE LET m == CHOOSE x \in S : \A y \in S : x <= y
         IN <<m>> \o SetToSeq(S \ {m})

\* The host never hands out an id that is still registered; ids the engine
\* still remembers are avoided too, since the host never reuses an id.
FreshId(used) ==
    CHOOSE n \in 1..(Cardinality(used) + 1) :
        n \notin used /\ \A m \in 1..(n - 1) : m \in used

NoFrame == [kind |-> "none"]

EmptyQueue == [i \in {} |-> 0]

\* The timer entry points are identified by their owner: the host's native
\* functions, or the wrappers installed by overrideTimeouts() of engine e.
Native == [setTimeout |-> 0, clearTimeout |-> 0]

Wrapper(e) == [setTimeout |-> e, clearTimeout |-> e]

Engines == 1..MaxEngines

\* No instance constructed yet, window.setTimeout and window.clearTimeout
\* are the host's.
NoInterception ==
    [window |-> Native,
     engines |-> [e \in Engines |->
                    [created |-> FALSE, original |-> Native,
                     isOverridden |-> FALSE, restores |-> 0]]]

\* A host that stops every dispatch whose signal is aborted.
NoLateAborts == [pending |-> {}, fired |-> {}]

AtRest == frame.kind = "none"

\* The engine's and the host's mutable state as one value, so that the
\* methods compose as the code calls them.
State ==
    [isOverridden |-> isOverridden, taskIdCounter |-> taskIdCounter,
     taskQueue |-> taskQueue, mode |-> currentSchedulingMode,
     currentTasksPerFrame |-> currentTasksPerFrame,
     animationFrameId |-> animationFrameId,
     backgroundTickerId |-> backgroundTickerId, published |-> published,
     destroyed |-> destroyed, rafs |-> rafs, timers |-> timers,
     postTasks |-> postTasks, history |-> history]

Commit(s) ==
    /\ isOverridden' = s.isOverridden
    /\ taskIdCounter' = s.taskIdCounter
    /\ taskQueue' = s.taskQueue
    /\ currentSchedulingMode' = s.mode
    /\ currentTasksPerFrame' = s.currentTasksPerFrame
    /\ animationFrameId' = s.animationFrameId
    /\ backgroundTickerId' = s.backgroundTickerId
    /\ published' = s.published
    /\ destroyed' = s.destroyed
    /\ rafs' = s.rafs
    /\ timers' = s.timers
    /\ postTasks' = s.postTasks
    /\ history' = s.history

QueueIds(s) == DOMAIN s.taskQueue

TimerIdsInUse(s) ==
    {t.id : t \in s.timers} \cup {s.backgroundTickerId}
        \cup {s.taskQueue[i].nativeTimerId : i \in QueueIds(s)}

RafIdsInUse(s) == s.rafs \cup {s.animationFrameId}

\* pendingTaskCountSubject.next(v): a completed subject drops the value.
Publish(s, v) == [s EXCEPT !.published = IF s.destroyed THEN @ ELSE v]

PublishSize(s) == Publish(s, Cardinality(QueueIds(s)))

\* window.requestAnimationFrame(this.processRafQueue)
RequestAnimationFrame(s) ==
    LET h == FreshId(RafIdsInUse(s))
    IN [s EXCEPT !.animationFrameId = h, !.rafs = @ \cup {h}]

\* performance.now(), in the relative time of this model.
Now == 0

\* What a native timer's handler closes over: the task's id (its executeAt
\* and batching flag are kept for stating properties).
TaskRef(t) == [id |-> t.id, executeAt |-> t.executeAt, batching |-> t.batching]

\* The handler does not concern a task (the background ticker).
NoTask == [id |-> 0, executeAt |-> 0, batching |-> TRUE]

\* originalSetTimeout(handler, delay): returns the new timer's id.
NewTimer(s, kind, task, delay) ==
    [id |-> FreshId(TimerIdsInUse(s)), kind |-> kind, task |-> task,
     fireAt |-> Now + delay]

\* A stored time after one tick: a time already reached stays reached.
Elapse(x) == IF x <= 0 THEN x ELSE x - 1

DeleteTask(s, id) ==
    [s EXCEPT !.taskQueue = [i \in QueueIds(s) \ {id} |-> s.taskQueue[i]]]

HasBatchedTasks(s) == \E i \in QueueIds(s) : s.taskQueue[i].batching

\* The callback of task id is invoked.
Invoke(s, id) == [s EXCEPT !.history[id].execCount = Min(@ + 1, 2)]

\* ------------------------------------------------------- internal methods
\* stopAllTickers(): cancels the frame request and the background ticker,
\* aborts every controller that is not aborted yet, mode := idle.  An
\* aborted dispatch is rejected by the host and never runs.
stopAllTickers(s) ==
    LET live == {i \in QueueIds(s) : s.taskQueue[i].postTaskController = "live"}
    IN [s EXCEPT
          !.rafs = IF s.animationFrameId # NoHandle
                   THEN @ \ {s.animationFrameId} ELSE @,
          !.timers = IF s.backgroundTickerId # NoHandle
                     THEN {t \in @ : t.id # s.backgroundTickerId} ELSE @,
          !.animationFrameId = NoHandle,
          !.backgroundTickerId = NoHandle,
          !.taskQueue = [i \in QueueIds(s) |->
                           IF i \in live
                           THEN [s.taskQueue[i] EXCEPT !.postTaskController = "aborted"]
                           ELSE s.taskQueue[i]],
          !.postTasks = @ \ live,
          !.mode = "idle"]

\* Mutant: the cooperative dispatch is requested with no delay.
PostTaskDelay_Zero(executeAt) == 0

\* The delay option of scheduler.postTask: Math.max(0, task.executeAt - now).
PostTaskDelay(executeAt) == Max(0, executeAt - Now)

\* Mutant: the guard tests only that the task holds a controller, so a task
\* whose controller was aborted is not dispatched again.
runTaskWithPostTask_SkipsAborted(s, id) ==
    LET t == s.taskQueue[id]
    IN IF ~t.batching THEN s
       ELSE IF t.postTaskController # "none" THEN s
       ELSE [s EXCEPT !.taskQueue[id].postTaskController = "live",
                      !.taskQueue[id].dispatchAt = Now + PostTaskDelay(t.executeAt),
                      !.postTasks = @ \cup {id}]

\* runTaskWithPostTask(task): a new controller and a new dispatch, unless the
\* task is not batched or already holds a controller that is not aborted.
\* dispatchAt is the time at which the host may run the dispatch.
runTaskWithPostTask(s, id) ==
    LET t == s.taskQueue[id]
    IN IF ~t.batching THEN s
       ELSE IF t.postTaskController = "live" THEN s
       ELSE [s EXCEPT !.taskQueue[id].postTaskController = "live",
                      !.taskQueue[id].dispatchAt = Now + PostTaskDelay(t.executeAt),
                      !.postTasks = @ \cup {id}]

RECURSIVE ForEachRunWithPostTask(_, _)
ForEachRunWithPostTask(s, ids) ==
    IF ids = <<>> THEN s
    ELSE ForEachRunWithPostTask(runTaskWithPostTask(s, Head(ids)), Tail(ids))

\* The branch of startAppropriateTicker() that enters postTask mode.
EnterPostTask(s) ==
    ForEachRunWithPostTask([s EXCEPT !.mode = "postTask"], SetToSeq(QueueIds(s)))

\* The mode startAppropriateTicker() selects when batched tasks are pending.
SelectMode(strategy, supported, isHidden) ==
    IF strategy = "responsiveness" /\ supported THEN "postTask"
    ELSE IF ~isHidden THEN "rAF"
    ELSE IF supported THEN "postTask"
    ELSE "timeout"

\* startAppropriateTicker()
startAppropriateTicker(s, isHidden) ==
    IF ~HasBatchedTasks(s) THEN [s EXCEPT !.mode = "idle"]
    ELSE LET m == SelectMode(config.primaryStrategy, isPostTaskSupported, isHidden)
         IN CASE m = "postTask" -> EnterPostTask(s)
              [] m = "rAF" -> RequestAnimationFrame([s EXCEPT !.mode = "rAF"])
              [] m = "timeout" ->
                    LET t == NewTimer(s, "ticker", NoTask, config.backgroundTickInterval)
                    IN [s EXCEPT !.mode = "timeout",
                                 !.backgroundTickerId = t.id,
                                 !.timers = @ \cup {t}]

\* Mutant: the visibility handler tears down like restoreTimeouts(), it also
\* clears the dedicated timers of the non-batched tasks.
handleVisibilityChange_ClearsNative(s, isHidden) ==
    LET native == {s.taskQueue[i].nativeTimerId : i \in QueueIds(s)} \ {NoHandle}
    IN startAppropriateTicker(
           stopAllTickers([s EXCEPT !.timers = {t \in @ : t.id \notin native}]),
           isHidden)

\* handleVisibilityChange()
handleVisibilityChange(s, isHidden) ==
    startAppropriateTicker(stopAllTickers(s), isHidden)

\* Mutant: the two duration tests are swapped, a slow cycle grows the budget
\* and a fast one shrinks it.
adjustFrameBudget_Swapped(s, frameDurationMs) ==
    IF ~config.dynamicBudgetEnabled \/ s.mode # "rAF" THEN s
    ELSE IF frameDurationMs < config.frameTimeBudgetMs /\ s.currentTasksPerFrame > 1
    THEN [s EXCEPT !.currentTasksPerFrame = Max(1, (9 * @) \div 10)]
    ELSE IF frameDurationMs > config.frameTimeBudgetMs
            /\ s.currentTasksPerFrame < config.maxTasksPerFrame
    THEN [s EXCEPT !.currentTasksPerFrame = Min(config.maxTasksPerFrame, @ + 1)]
    ELSE s

\* Mutant: Math.round in place of Math.floor; Math.round(x * 0.9) is
\* (9 * x + 5) \div 10.
adjustFrameBudget_Round(s, frameDurationMs) ==
    IF ~config.dynamicBudgetEnabled \/ s.mode # "rAF" THEN s
    ELSE IF frameDurationMs > config.frameTimeBudgetMs /\ s.currentTasksPerFrame > 1
    THEN [s EXCEPT !.currentTasksPerFrame = Max(1, (9 * @ + 5) \div 10)]
    ELSE IF frameDurationMs < config.frameTimeBudgetMs
            /\ s.currentTasksPerFrame < config.maxTasksPerFrame
    THEN [s EXCEPT !.currentTasksPerFrame = Min(config.maxTasksPerFrame, @ + 1)]
    ELSE s

\* Mutant: the dynamicBudgetEnabled flag is not tested.
adjustFrameBudget_IgnoresFlag(s, frameDurationMs) ==
    IF s.mode # "rAF" THEN s
    ELSE IF frameDurationMs > config.frameTimeBudgetMs /\ s.currentTasksPerFrame > 1
    THEN [s EXCEPT !.currentTasksPerFrame = Max(1, (9 * @) \div 10)]
    ELSE IF frameDurationMs < config.frameTimeBudgetMs
            /\ s.currentTasksPerFrame < config.maxTasksPerFrame
    THEN [s EXCEPT !.currentTasksPerFrame = Min(config.maxTasksPerFrame, @ + 1)]
    ELSE s

\* Mutant: the scheduling mode is not tested, a cycle of the timeout mode
\* adjusts the budget too.
adjustFrameBudget_AnyMode(s, frameDurationMs) ==
    IF ~config.dynamicBudgetEnabled THEN s
    ELSE IF frameDurationMs > config.frameTimeBudgetMs /\ s.currentTasksPerFrame > 1
    THEN [s EXCEPT !.currentTasksPerFrame = Max(1, (9 * @) \div 10)]
    ELSE IF frameDurationMs < config.frameTimeBudgetMs
            /\ s.currentTasksPerFrame < config.maxTasksPerFrame
    THEN [s EXCEPT !.currentTasksPerFrame = Min(config.maxTasksPerFrame, @ + 1)]
    ELSE s

\* adjustFrameBudget(frameDurationMs); Math.floor(x * 0.9) is (9 * x) \div 10.
adjustFrameBudget(s, frameDurationMs) ==
    IF ~config.dynamicBudgetEnabled \/ s.mode # "rAF" THEN s
    ELSE IF frameDurationMs > config.frameTimeBudgetMs /\ s.currentTasksPerFrame > 1
    THEN [s EXCEPT !.currentTasksPerFrame = Max(1, (9 * @) \div 10)]
    ELSE IF frameDurationMs < config.frameTimeBudgetMs
            /\ s.currentTasksPerFrame < config.maxTasksPerFrame
    THEN [s EXCEPT !.currentTasksPerFrame = Min(config.maxTasksPerFrame, @ + 1)]
    ELSE s

\* --------------------------------------------------------- public methods
\* Number(options?.delay) || 0: NaN (also from a missing or non-numeric
\* delay) and 0 give 0, every other number is kept.
CoerceDelay(d) == IF d.kind = "NaN" \/ d.value = 0 THEN 0 ELSE d.value

\* Mutant: the id is derived from the registry's size.
NextTaskId_FromSize(s) == Cardinality(QueueIds(s)) + 1

\* ++this.taskIdCounter
NextTaskId(s) == s.taskIdCounter + 1

\* scheduleTask(callback, {delay, priority, batching})
scheduleTask(s, delayInput, priority, useBatching) ==
    LET taskId == NextTaskId(s)
        delay == CoerceDelay(delayInput)
        executeAt == Now + delay
        task == [id |-> taskId, executeAt |-> executeAt, priority |-> priority,
                 batching |-> useBatching, nativeTimerId |-> NoHandle,
                 postTaskController |-> "none", dispatchAt |-> Now]
        h == [execCount |-> 0, cancelled |-> FALSE, handoffs |-> 0]
        s1 == [s EXCEPT !.taskIdCounter = taskId,
                        !.taskQueue = [i \in QueueIds(s) \cup {taskId} |->
                                         IF i = taskId THEN task ELSE s.taskQueue[i]],
                        !.history = [i \in 1..taskId |->
                                       IF i = taskId THEN h ELSE s.history[i]]]
        s2 == PublishSize(s1)
    IN IF ~useBatching
       THEN LET t == NewTimer(s2, "native", TaskRef(task), delay)
            IN [s2 EXCEPT !.taskQueue[taskId].nativeTimerId = t.id,
                          !.timers = @ \cup {t}]
       ELSE IF s2.mode = "idle" /\ Cardinality(QueueIds(s2)) > 0
       THEN startAppropriateTicker(s2, hidden)
       ELSE IF s2.mode = "postTask"
       THEN runTaskWithPostTask(s2, taskId)
       ELSE s2

\* Mutant: an id that is not registered is passed on to the native
\* clearTimeout.
cancelTask_ClearsNative(s, taskId) ==
    IF taskId \notin QueueIds(s)
    THEN [s EXCEPT !.timers = {x \in @ : x.id # taskId}]
    ELSE LET t == s.taskQueue[taskId]
             s1 == [s EXCEPT
                      !.timers = IF t.nativeTimerId # NoHandle
                                 THEN {x \in @ : x.id # t.nativeTimerId} ELSE @,
                      !.postTasks = IF t.postTaskController # "none"
                                    THEN @ \ {taskId} ELSE @,
                      !.history[taskId].cancelled =
                          @ \/ s.history[taskId].execCount = 0]
         IN PublishSize(DeleteTask(s1, taskId))

\* Mutant: cancelTask deletes the entry and leaves its dedicated timer armed.
cancelTask_KeepsTimer(s, taskId) ==
    IF taskId \notin QueueIds(s) THEN s
    ELSE LET t == s.taskQueue[taskId]
             s1 == [s EXCEPT
                      !.postTasks = IF t.postTaskController # "none"
                                    THEN @ \ {taskId} ELSE @,
                      !.history[taskId].cancelled =
                          @ \/ s.history[taskId].execCount = 0]
         IN PublishSize(DeleteTask(s1, taskId))

\* Mutant: cancelTask of an id that is not registered clears the native
\* timer that restoreTimeouts() set for that task.
cancelTask_ClearsHandoff(s, taskId) ==
    IF taskId \notin QueueIds(s)
    THEN [s EXCEPT !.timers = {x \in @ : ~(x.kind = "handoff" /\ x.task.id = taskId)}]
    ELSE LET t == s.taskQueue[taskId]
             s1 == [s EXCEPT
                      !.timers = IF t.nativeTimerId # NoHandle
                                 THEN {x \in @ : x.id # t.nativeTimerId} ELSE @,
                      !.postTasks = IF t.postTaskController # "none"
                                    THEN @ \ {taskId} ELSE @,
                      !.history[taskId].cancelled =
                          @ \/ s.history[taskId].execCount = 0]
         IN PublishSize(DeleteTask(s1, taskId))

\* cancelTask(taskId)
cancelTask(s, taskId) ==
    IF taskId \notin QueueIds(s) THEN s
    ELSE LET t == s.taskQueue[taskId]
             s1 == [s EXCEPT
                      !.timers = IF t.nativeTimerId # NoHandle
                                 THEN {x \in @ : x.id # t.nativeTimerId} ELSE @,
                      !.postTasks = IF t.postTaskController # "none"
                                    THEN @ \ {taskId} ELSE @,
                      !.history[taskId].cancelled =
                          @ \/ s.history[taskId].execCount = 0]
         IN PublishSize(DeleteTask(s1, taskId))

\* overrideTimeouts()
overrideTimeouts(s) ==
    IF s.isOverridden THEN s ELSE [s EXCEPT !.isOverridden = TRUE]

\* Mutant: the handoff re-registers every task with no delay.
RemainingDelay_Zero(executeAt) == 0

\* Math.max(0, task.executeAt - now)
RemainingDelay(executeAt) == Max(0, executeAt - Now)

\* The loop of restoreTimeouts() that registers every pending task's
\* callback on the native timer.
RECURSIVE RescheduleNatively(_, _)
RescheduleNatively(s, ids) ==
    IF ids = <<>> THEN s
    ELSE LET id == Head(ids)
             t == NewTimer(s, "handoff", TaskRef(s.taskQueue[id]),
                           RemainingDelay(s.taskQueue[id].executeAt))
         IN RescheduleNatively(
                [s EXCEPT !.timers = @ \cup {t},
                          !.history[id].handoffs = Min(@ + 1, 2)],
                Tail(ids))

\* Mutant: restoreTimeouts() without its early return.
restoreTimeouts_NoGuard(s) ==
    LET s1 == stopAllTickers(s)
        native == {s1.taskQueue[i].nativeTimerId : i \in QueueIds(s1)} \ {NoHandle}
        s2 == [s1 EXCEPT !.timers = {t \in @ : t.id \notin native},
                         !.isOverridden = FALSE]
        s3 == RescheduleNatively(s2, SetToSeq(QueueIds(s2)))
    IN Publish([s3 EXCEPT !.taskQueue = EmptyQueue], 0)

\* restoreTimeouts()
restoreTimeouts(s) ==
    IF ~s.isOverridden THEN s
    ELSE LET s1 == stopAllTickers(s)
             native == {s1.taskQueue[i].nativeTimerId : i \in QueueIds(s1)} \ {NoHandle}
             s2 == [s1 EXCEPT !.timers = {t \in @ : t.id \notin native},
                              !.isOverridden = FALSE]
             s3 == RescheduleNatively(s2, SetToSeq(QueueIds(s2)))
         IN Publish([s3 EXCEPT !.taskQueue = EmptyQueue], 0)

\* destroy()
destroy(s) == [restoreTimeouts(s) EXCEPT !.destroyed = TRUE]

\* executeTaskImmediately(taskId), after the callback: the finally block.
FinishImmediate(s, taskId) == PublishSize(DeleteTask(s, taskId))

\* -------------------------------------------------------- execution cycle
\* processRafQueue(), step 1: the batched tasks that are due at frameStart,
\* in the registry's iteration order.
\* Array.from(this.taskQueue.values()): the task objects in iteration order.
QueueValues(s) ==
    LET ids == SetToSeq(QueueIds(s))
    IN [k \in 1..Len(ids) |-> s.taskQueue[ids[k]]]

\* Mutant: the due-task scan does not test task.batching.
DueTasks_NoBatchingFilter(s, frameStart) ==
    LET IsDue(t) == t.executeAt <= frameStart
    IN SelectSeq(QueueValues(s), IsDue)

\* Mutant: the due-task scan does not test executeAt.
DueTasks_NoTimeTest(s, frameStart) ==
    LET IsDue(t) == t.batching
    IN SelectSeq(QueueValues(s), IsDue)

DueTasks(s, frameStart) ==
    LET IsDue(t) == t.batching /\ t.executeAt <= frameStart
    IN SelectSeq(QueueValues(s), IsDue)

\* Mutant: the high-priority list is not filtered by priority.
HighPriorityTasks_NoFilter(due) == due

HighPriorityTasks(due) ==
    LET IsHigh(t) == t.priority = "user-visible"
    IN SelectSeq(due, IsHigh)

LowPriorityTasks(due) ==
    LET IsLow(t) == t.priority = "background"
    IN SelectSeq(due, IsLow)

\* Mutant: the high-priority loop stops one task late (> for >=).
HighLoopRuns_OffByOne(s, f) ==
    /\ f.phase = "high"
    /\ f.idx <= Len(f.high)
    /\ ~(f.executed > s.currentTasksPerFrame)

\* The guard of the high-priority loop: tasksExecutedThisFrame below the budget.
HighLoopRuns(s, f) ==
    /\ f.phase = "high"
    /\ f.idx <= Len(f.high)
    /\ ~(f.executed >= s.currentTasksPerFrame)

\* Mutant: the low-priority loop checks the task count only, not the time.
LowLoopRuns_NoTimeCheck(s, f, j) ==
    /\ j <= Len(f.low)
    /\ ~(f.executed >= s.currentTasksPerFrame)

\* The guard of the low-priority loop, at position j of the low list.
LowLoopRuns(s, f, j) ==
    /\ j <= Len(f.low)
    /\ ~(f.elapsed >= config.frameTimeBudgetMs
         \/ f.executed >= s.currentTasksPerFrame)

\* Mutant: the cycle does not re-arm its driver when batched tasks remain.
FinishCycle_NoRearm(s, f) ==
    LET s1 == PublishSize(adjustFrameBudget(s, f.elapsed))
    IN IF HasBatchedTasks(s1) THEN s1 ELSE [s1 EXCEPT !.mode = "idle"]

\* processRafQueue(), steps 4 and 5: adjust the budget, publish, re-arm or idle.
FinishCycle(s, f) ==
    LET s1 == PublishSize(adjustFrameBudget(s, f.elapsed))
    IN IF HasBatchedTasks(s1)
       THEN CASE s1.mode = "rAF" -> RequestAnimationFrame(s1)
              [] s1.mode = "timeout" ->
                    LET t == NewTimer(s1, "ticker", NoTask, config.backgroundTickInterval)
                    IN [s1 EXCEPT !.backgroundTickerId = t.id, !.timers = @ \cup {t}]
              [] OTHER -> s1
       ELSE [s1 EXCEPT !.mode = "idle"]

\* The task whose callback the cycle is running.
CurrentTask(f) == IF f.phase = "high" THEN f.high[f.idx] ELSE f.low[f.idx]

\* The cycle runs from position f up to the next callback invocation, or to
\* its end when neither loop has a task left to run.
ContinueCycle(s, f) ==
    IF HighLoopRuns(s, f)
    THEN /\ Commit(Invoke(s, f.high[f.idx].id))
         /\ frame' = [f EXCEPT !.ran = Append(@, f.high[f.idx])]
    ELSE LET j == IF f.phase = "high" THEN 1 ELSE f.idx
         IN IF LowLoopRuns(s, f, j)
            THEN /\ Commit(Invoke(s, f.low[j].id))
                 /\ frame' = [f EXCEPT !.phase = "low", !.idx = j,
                                       !.ran = Append(@, f.low[j])]
            ELSE /\ Commit(FinishCycle(s, f))
                 /\ frame' = NoFrame

\* processRafQueue(), called by the host with registration s already consumed.
processRafQueue(s) ==
    IF s.mode # "rAF" /\ s.mode # "timeout"
    THEN Commit(s) /\ frame' = NoFrame
    ELSE LET due == DueTasks(s, Now)
         IN ContinueCycle(s, [kind |-> "cycle", elapsed |-> 0,
                               due |-> due,
                               high |-> HighPriorityTasks(due),
                               low |-> LowPriorityTasks(due),
                               phase |-> "high", idx |-> 1, executed |-> 0,
                               ran |-> <<>>, threw |-> FALSE])

\* Mutant: process(task) does not count the task it ran.
AfterProcess_NoCount(s, f) ==
    ContinueCycle(DeleteTask(s, CurrentTask(f).id), [f EXCEPT !.idx = @ + 1])

\* Mutant: after each callback the cycle computes the due tasks again from
\* the registry and goes on with the new lists.
AfterProcess_Rescan(s, f) ==
    LET s1 == DeleteTask(s, CurrentTask(f).id)
        due == DueTasks(s1, Now)
    IN ContinueCycle(s1, [f EXCEPT !.high = HighPriorityTasks(due),
                                   !.low = LowPriorityTasks(due),
                                   !.idx = 1, !.executed = @ + 1])

\* process(task), after the callback: delete the entry and count the task.
AfterProcess(s, f) ==
    ContinueCycle(DeleteTask(s, CurrentTask(f).id),
                  [f EXCEPT !.idx = @ + 1, !.executed = @ + 1])

\* Mutant: process(task) has no try/catch, the exception leaves
\* processRafQueue.
AfterThrow_Uncaught(s, f) == Commit(s) /\ frame' = NoFrame

\* process(task), after the callback threw: the catch block logs, then the
\* entry is deleted and the task counted as after a return. threw records
\* that a callback of this cycle has thrown.
AfterThrow(s, f) == AfterProcess(s, [f EXCEPT !.threw = TRUE])

\* executeTaskImmediately(taskId), up to the callback.
executeTaskImmediately(s, taskId) ==
    IF taskId \notin QueueIds(s)
    THEN Commit(s) /\ frame' = NoFrame
    ELSE Commit(Invoke(s, taskId)) /\ frame' = [kind |-> "immediate", task |-> taskId]

\* ---------------------------------------------------------------- actions
Priorities == {"user-visible", "background"}

DelayInputs ==
    {[kind |-> "NaN", value |-> 0]} \cup {[kind |-> "number", value |-> v] : v \in 0..MaxDelay}

Configs ==
    [primaryStrategy : {"throughput", "responsiveness"},
     dynamicBudgetEnabled : BOOLEAN,
     frameTimeBudgetMs : {FrameTimeBudget},
     initialTasksPerFrame : 1..MaxBudget,
     maxTasksPerFrame : {MaxBudget + 1},
     backgroundTickInterval : {TickInterval}]

Hosts == [performance : BOOLEAN, requestAnimationFrame : BOOLEAN]

\* A browser that provides both primitives.
FullHost == [performance |-> TRUE, requestAnimationFrame |-> TRUE]

\* The state the constructor leaves: handleVisibilityChange() on an empty
\* registry selects idle.
Constructed(c) ==
    /\ config = c
    /\ host = FullHost
    /\ engine = "created"
    /\ lateAborts = NoLateAborts
    /\ interception = NoInterception
    /\ isOverridden = FALSE
    /\ taskIdCounter = 0
    /\ taskQueue = EmptyQueue
    /\ currentSchedulingMode = "idle"
    /\ currentTasksPerFrame = c.initialTasksPerFrame
    /\ animationFrameId = NoHandle
    /\ backgroundTickerId = NoHandle
    /\ published = 0
    /\ destroyed = FALSE
    /\ rafs = {}
    /\ timers = {}
    /\ postTasks = {}
    /\ frame = NoFrame
    /\ history = EmptyQueue
    /\ cycles = 0

Init ==
    /\ hidden \in BOOLEAN
    /\ isPostTaskSupported \in BOOLEAN
    /\ \E c \in Configs : Constructed(c)

Env == <<config, isPostTaskSupported, host, engine, lateAborts, interception>>

\* A public operation called by the application, at rest or from inside the
\* running callback.
Call(s) ==
    /\ Commit(s)
    /\ UNCHANGED <<hidden, Env, frame, cycles>>

ScheduleTask(d, p, b) ==
    /\ taskIdCounter < MaxTasks
    /\ Call(scheduleTask(State, d, p, b))

\* The draining scenario's schedule calls: user-visible, batched, delay 0,
\* all before the first cycle.
DrainSchedule ==
    /\ taskIdCounter < MaxDrain
    /\ cycles = 0
    /\ Call(scheduleTask(State, [kind |-> "number", value |-> 0], "user-visible", TRUE))

CancelTask(id) == Call(cancelTask(State, id))

OverrideTimeouts == Call(overrideTimeouts(State))

RestoreTimeouts == Call(restoreTimeouts(State))

Destroy == Call(destroy(State))

\* The document's visibility changes; the listener runs unless destroy()
\* removed it.
VisibilityChange ==
    /\ AtRest
    /\ hidden' = ~hidden
    /\ Commit(IF destroyed THEN State ELSE handleVisibilityChange(State, ~hidden))
    /\ UNCHANGED <<Env, frame, cycles>>

\* Time passes, between handlers or while a callback runs.
AdvanceTime ==
    /\ taskQueue' = [i \in DOMAIN taskQueue |->
                       [taskQueue[i] EXCEPT !.executeAt = Elapse(@),
                                            !.dispatchAt = Elapse(@)]]
    /\ timers' = {[t EXCEPT !.fireAt = Elapse(@), !.task.executeAt = Elapse(@)] :
                    t \in timers}
    /\ frame' = IF frame.kind = "cycle"
                THEN [frame EXCEPT !.elapsed = Min(@ + 1, config.frameTimeBudgetMs + 1)]
                ELSE frame
    /\ UNCHANGED <<hidden, Env, isOverridden, taskIdCounter,
                   currentSchedulingMode, currentTasksPerFrame, animationFrameId,
                   backgroundTickerId, published, destroyed, rafs,
                   postTasks, history, cycles>>

\* The host runs a frame callback; frames are produced only while visible.
RafFires(h, counting) ==
    /\ AtRest
    /\ ~hidden
    /\ h \in rafs
    /\ processRafQueue([State EXCEPT !.rafs = @ \ {h}])
    /\ cycles' = IF counting /\ currentSchedulingMode \in {"rAF", "timeout"}
                 THEN cycles + 1 ELSE cycles
    /\ UNCHANGED <<hidden, Env>>

RafFire(h) == RafFires(h, FALSE)

DrainRafFire(h) == RafFires(h, TRUE)

\* A native timer expires: the background ticker, a dedicated timer of a
\* non-batched task, or a callback handed to the native timer.
TimerFire(t) ==
    /\ AtRest
    /\ t \in timers
    /\ Now >= t.fireAt
    /\ LET s == [State EXCEPT !.timers = @ \ {t}]
       IN CASE t.kind = "ticker" -> processRafQueue(s)
            [] t.kind = "native" -> executeTaskImmediately(s, t.task.id)
            [] t.kind = "handoff" ->
                  /\ Commit(Invoke(s, t.task.id))
                  /\ frame' = [kind |-> "handoff", task |-> t.task.id]
    /\ UNCHANGED <<hidden, Env, cycles>>

\* The host runs a cooperative dispatch whose delay has passed.
PostTaskFire(id) ==
    /\ AtRest
    /\ id \in postTasks
    /\ id \in DOMAIN taskQueue => Now >= taskQueue[id].dispatchAt
    /\ executeTaskImmediately([State EXCEPT !.postTasks = @ \ {id}], id)
    /\ UNCHANGED <<hidden, Env, cycles>>

\* Mutant: the rejection handler does not test the error's name.
PostTaskCatch_NoAbortTest(s, id, errName) == PublishSize(DeleteTask(s, id))

\* The rejection handler of the dispatch of task id: an AbortError is
\* ignored, any other error deletes the entry and publishes the size.
PostTaskCatch(s, id, errName) ==
    IF errName # "AbortError" THEN PublishSize(DeleteTask(s, id)) ELSE s

\* A cooperative dispatch is rejected with an error that is not an abort.
PostTaskError(id) ==
    /\ AtRest
    /\ id \in postTasks
    /\ Commit(PostTaskCatch([State EXCEPT !.postTasks = @ \ {id}], id, "Error"))
    /\ UNCHANGED <<hidden, Env, frame, cycles>>

\* The dispatch of a task whose controller was aborted is rejected with an
\* AbortError.
PostTaskAborted(id) ==
    /\ AtRest
    /\ id \in DOMAIN taskQueue
    /\ taskQueue[id].postTaskController = "aborted"
    /\ Commit(PostTaskCatch(State, id, "AbortError"))
    /\ UNCHANGED <<hidden, Env, frame, cycles>>

\* The running callback returns.
CallbackReturn ==
    /\ ~AtRest
    /\ CASE frame.kind = "cycle" -> AfterProcess(State, frame)
         [] frame.kind = "immediate" ->
               Commit(FinishImmediate(State, frame.task)) /\ frame' = NoFrame
         [] frame.kind = "handoff" -> Commit(State) /\ frame' = NoFrame
    /\ UNCHANGED <<hidden, Env, cycles>>

\* The running callback throws: process(task) catches, the finally block of
\* executeTaskImmediately runs, the host reports the error of a callback it
\* runs itself.
CallbackThrow ==
    /\ ~AtRest
    /\ CASE frame.kind = "cycle" -> AfterThrow(State, frame)
         [] frame.kind = "immediate" ->
               Commit(FinishImmediate(State, frame.task)) /\ frame' = NoFrame
         [] frame.kind = "handoff" -> Commit(State) /\ frame' = NoFrame
    /\ UNCHANGED <<hidden, Env, cycles>>

Next ==
    \/ \E d \in DelayInputs, p \in Priorities, b \in BOOLEAN : ScheduleTask(d, p, b)
    \/ \E id \in 1..MaxTasks : CancelTask(id)
    \/ OverrideTimeouts
    \/ RestoreTimeouts
    \/ Destroy
    \/ VisibilityChange
    \/ AdvanceTime
    \/ \E h \in rafs : RafFire(h)
    \/ \E t \in timers : TimerFire(t)
    \/ \E id \in postTasks : PostTaskFire(id)
    \/ \E id \in postTasks : PostTaskError(id)
    \/ \E id \in DOMAIN taskQueue : PostTaskAborted(id)
    \/ CallbackReturn
    \/ CallbackThrow

Spec == Init /\ [][Next]_vars

\* The draining scenario: a visible document, the throughput strategy, a
\* fixed budget, N user-visible batched tasks of delay 0, then frames only.
DrainConfigs ==
    {c \in Configs : c.primaryStrategy = "throughput" /\ ~c.dynamicBudgetEnabled}

DrainInit ==
    /\ hidden = FALSE
    /\ isPostTaskSupported \in BOOLEAN
    /\ \E c \in DrainConfigs : Constructed(c)

DrainNext ==
    \/ DrainSchedule
    \/ \E h \in rafs : DrainRafFire(h)
    \/ CallbackReturn
    \/ AdvanceTime

SpecDrain == DrainInit /\ [][DrainNext]_vars

\* The budget scenario: a visible document, the throughput strategy, one
\* batched task that is not due yet, then frames only. Each frame runs a
\* cycle that finds nothing due and lasts a given time.
BudgetConfigs ==
    [primaryStrategy : {"throughput"},
     dynamicBudgetEnabled : BOOLEAN,
     frameTimeBudgetMs : {FrameTimeBudget},
     initialTasksPerFrame : 0..MaxFrameTasks,
     maxTasksPerFrame : 0..MaxFrameTasks,
     backgroundTickInterval : {TickInterval}]

\* The configurations whose initial budget lies in [1, maxTasksPerFrame].
InRangeConfigs ==
    {c \in BudgetConfigs : 1 <= c.initialTasksPerFrame
                           /\ c.initialTasksPerFrame <= c.maxTasksPerFrame}

\* The constructor's result as one value.
ConstructedState(c) ==
    [isOverridden |-> FALSE, taskIdCounter |-> 0, taskQueue |-> EmptyQueue,
     mode |-> "idle", currentTasksPerFrame |-> c.initialTasksPerFrame,
     animationFrameId |-> NoHandle, backgroundTickerId |-> NoHandle,
     published |-> 0, destroyed |-> FALSE, rafs |-> {}, timers |-> {},
     postTasks |-> {}, history |-> EmptyQueue]

\* The variables hold the value s.
Holds(s) ==
    /\ isOverridden = s.isOverridden
    /\ taskIdCounter = s.taskIdCounter
    /\ taskQueue = s.taskQueue
    /\ currentSchedulingMode = s.mode
    /\ currentTasksPerFrame = s.currentTasksPerFrame
    /\ animationFrameId = s.animationFrameId
    /\ backgroundTickerId = s.backgroundTickerId
    /\ published = s.published
    /\ destroyed = s.destroyed
    /\ rafs = s.rafs
    /\ timers = s.timers
    /\ postTasks = s.postTasks
    /\ history = s.history

\* new TimeoutScheduler(c) followed by scheduleTask(cb, {delay: MaxDelay}).
BudgetInit(configs) ==
    /\ hidden = FALSE
    /\ host = FullHost
    /\ engine = "created"
    /\ lateAborts = NoLateAborts
    /\ interception = NoInterception
    /\ isPostTaskSupported \in BOOLEAN
    /\ \E c \in configs :
          /\ config = c
          /\ Holds(scheduleTask(ConstructedState(c),
                                [kind |-> "number", value |-> MaxDelay],
                                "user-visible", TRUE))
    /\ frame = NoFrame
    /\ cycles = 0

\* The host runs a frame callback; the cycle finds no due task and
\* performance.now() has advanced by d when it ends.
FrameOfDuration(h, d) ==
    /\ AtRest
    /\ ~hidden
    /\ h \in rafs
    /\ currentSchedulingMode = "rAF"
    /\ DueTasks(State, Now) = <<>>
    /\ Commit(FinishCycle([State EXCEPT !.rafs = @ \ {h}], [elapsed |-> d]))
    /\ UNCHANGED <<hidden, Env, frame, cycles>>

SlowFrame(h) == FrameOfDuration(h, config.frameTimeBudgetMs + 1)

FastFrame(h) == \E d \in 0..(config.frameTimeBudgetMs - 1) : FrameOfDuration(h, d)

BudgetNext == \E h \in rafs, d \in 0..(config.frameTimeBudgetMs + 1) : FrameOfDuration(h, d)

SlowNext == \E h \in rafs : SlowFrame(h)

FastNext == \E h \in rafs : FastFrame(h)

\* Any configuration the constructor accepts, cycles of any duration.
SpecBudget == BudgetInit(BudgetConfigs) /\ [][BudgetNext]_vars

\* A sustained sequence of slow cycles, respectively of fast cycles, with
\* the dynamic budget enabled.
SpecSlow ==
    /\ BudgetInit({c \in InRangeConfigs : c.dynamicBudgetEnabled})
    /\ [][SlowNext]_vars
    /\ WF_vars(SlowNext)

SpecFast ==
    /\ BudgetInit({c \in InRangeConfigs : c.dynamicBudgetEnabled})
    /\ [][FastNext]_vars
    /\ WF_vars(FastNext)

\* The engine in use until shutdown, with a fair host: time passes, frames
\* are produced while the document is visible, expired timers fire,
\* cooperative dispatches whose delay has passed run, callbacks return.
LiveNext ==
    \/ \E d \in DelayInputs, p \in Priorities, b \in BOOLEAN : ScheduleTask(d, p, b)
    \/ \E id \in 1..MaxTasks : CancelTask(id)
    \/ OverrideTimeouts
    \/ RestoreTimeouts
    \/ VisibilityChange
    \/ AdvanceTime
    \/ \E h \in rafs : RafFire(h)
    \/ \E t \in timers : TimerFire(t)
    \/ \E id \in postTasks : PostTaskFire(id)
    \/ \E id \in postTasks : PostTaskError(id)
    \/ \E id \in DOMAIN taskQueue : PostTaskAborted(id)
    \/ CallbackReturn
    \/ CallbackThrow

HostFairness ==
    /\ WF_vars(AdvanceTime)
    /\ WF_vars(\E h \in rafs : RafFire(h))
    /\ WF_vars(\E t \in timers : TimerFire(t))
    /\ WF_vars(\E id \in postTasks : PostTaskFire(id))
    /\ WF_vars(CallbackReturn)

\* The liveness scenario fixes the count budget (1..MaxBudget).
LiveConfigs == {c \in Configs : ~c.dynamicBudgetEnabled}

LiveInit ==
    /\ hidden \in BOOLEAN
    /\ isPostTaskSupported \in BOOLEAN
    /\ \E c \in LiveConfigs : Constructed(c)

SpecLive == LiveInit /\ [][LiveNext]_vars /\ HostFairness

\* The late-abort scenario: a host with scheduler.postTask on which the abort
\* of a visibility change may come too late, so that the aborted dispatch
\* stays with the host and still runs its closure,
\* executeTaskImmediately(task.id).
LateVisibilityChange ==
    /\ AtRest
    /\ ~destroyed
    /\ hidden' = ~hidden
    /\ Commit(handleVisibilityChange(State, ~hidden))
    /\ lateAborts' = [lateAborts EXCEPT !.pending = @ \cup postTasks]
    /\ UNCHANGED <<config, isPostTaskSupported, host, engine, interception, frame, cycles>>

\* The host runs a dispatch that was aborted too late, once the delay it was
\* requested with has passed.
LatePostTaskFire(id) ==
    /\ AtRest
    /\ id \in lateAborts.pending
    /\ id \in DOMAIN taskQueue => PostTaskDelay(taskQueue[id].executeAt) = 0
    /\ executeTaskImmediately(State, id)
    /\ lateAborts' = [pending |-> lateAborts.pending \ {id},
                      fired |-> IF id \in DOMAIN taskQueue
                                THEN lateAborts.fired \cup {id}
                                ELSE lateAborts.fired]
    /\ UNCHANGED <<hidden, config, isPostTaskSupported, host, engine, interception, cycles>>

LateAbortNext ==
    \/ Next
    \/ LateVisibilityChange
    \/ \E id \in lateAborts.pending : LatePostTaskFire(id)

LateAbortInit ==
    /\ hidden \in BOOLEAN
    /\ isPostTaskSupported = TRUE
    /\ \E c \in LiveConfigs : Constructed(c)

SpecLateAbort == LateAbortInit /\ [][LateAbortNext]_vars

\* The scenario of several instances: engines are constructed and call
\* overrideTimeouts() and restoreTimeouts() in any order. Only the
\* interception boundary is followed: the global entry points, and per
\* instance the entry points it captured when constructed, its isOverridden
\* flag and how often it has assigned the globals back (at most MaxRestores
\* times).
Others == <<hidden, config, isPostTaskSupported, host, engine, lateAborts, isOverridden,
            taskIdCounter, taskQueue, currentSchedulingMode, currentTasksPerFrame,
            animationFrameId, backgroundTickerId, published, destroyed, rafs, timers,
            postTasks, frame, history, cycles>>

\* new TimeoutScheduler(): the field initializers capture window.setTimeout
\* and window.clearTimeout as they are at this moment.
NewEngine(e) ==
    /\ ~interception.engines[e].created
    /\ interception' =
          [interception EXCEPT !.engines[e].created = TRUE,
                               !.engines[e].original = interception.window]
    /\ UNCHANGED Others

\* overrideTimeouts() of instance e.
OverrideEngine(e) ==
    /\ interception.engines[e].created
    /\ interception' =
          IF interception.engines[e].isOverridden THEN interception
          ELSE [interception EXCEPT !.window = Wrapper(e),
                                    !.engines[e].isOverridden = TRUE]
    /\ UNCHANGED Others

\* restoreTimeouts() of instance e.
RestoreEngine(e) ==
    /\ interception.engines[e].created
    /\ interception.engines[e].isOverridden =>
          interception.engines[e].restores < MaxRestores
    /\ interception' =
          IF ~interception.engines[e].isOverridden THEN interception
          ELSE [interception EXCEPT !.window = interception.engines[e].original,
                                    !.engines[e].isOverridden = FALSE,
                                    !.engines[e].restores = @ + 1]
    /\ UNCHANGED Others

EnginesNext ==
    \E e \in Engines : NewEngine(e) \/ OverrideEngine(e) \/ RestoreEngine(e)

EnginesInit ==
    /\ hidden = FALSE
    /\ isPostTaskSupported = FALSE
    /\ \E c \in DrainConfigs : c.initialTasksPerFrame = 1 /\ Constructed(c)

SpecEngines == EnginesInit /\ [][EnginesNext]_vars

\* The delay scenario: schedule calls with every kind of delay input,
\* negative numbers included, cancellations, and time passing.
AllDelayInputs ==
    {[kind |-> "NaN", value |-> 0]}
      \cup {[kind |-> "number", value |-> v] : v \in (0 - MaxDelay)..MaxDelay}

ScheduleAnyDelay(d, p, b) ==
    /\ taskIdCounter < MaxTasks
    /\ Call(scheduleTask(State, d, p, b))

DelayNext ==
    \/ \E d \in AllDelayInputs, p \in Priorities, b \in BOOLEAN : ScheduleAnyDelay(d, p, b)
    \/ \E id \in 1..MaxTasks : CancelTask(id)
    \/ AdvanceTime

SpecDelay == Init /\ [][DelayNext]_vars

\* The construction scenario: any host, any configuration of Configs; the
\* only step is new TimeoutScheduler(config).
ConstructInit ==
    /\ hidden \in BOOLEAN
    /\ isPostTaskSupported \in BOOLEAN
    /\ host \in Hosts
    /\ engine = "none"
    /\ lateAborts = NoLateAborts
    /\ interception = NoInterception
    /\ \E c \in Configs : config = c /\ Holds(ConstructedState(c))
    /\ frame = NoFrame
    /\ cycles = 0

\* The constructor: it throws if window.performance is missing, otherwise
\* it registers the visibility listener and calls handleVisibilityChange().
New ==
    /\ engine = "none"
    /\ IF ~host.performance
       THEN /\ engine' = "failed"
            /\ Commit(State)
       ELSE /\ engine' = "created"
            /\ Commit(handleVisibilityChange(State, hidden))
    /\ UNCHANGED <<hidden, config, isPostTaskSupported, host, lateAborts, interception,
                   frame, cycles>>

SpecConstruct == ConstructInit /\ [][New]_vars

\* ------------------------------------------------------------ properties
Issued == DOMAIN history

Size == Cardinality(DOMAIN taskQueue)

InCycle == frame.kind = "cycle"

TimersOf(kind) == {t \in timers : t.kind = kind}

\* restoreTimeouts() took effect in this step: only it clears isOverridden.
Released == isOverridden /\ ~isOverridden'

\* C1: at-most-once execution: no task's callback is invoked twice.
C1_AtMostOnce == \A i \in Issued : history[i].execCount <= 1

\* C2: a task cancelled before its callback started is never invoked.
C2_CancelledNeverRuns ==
    \A i \in Issued : history[i].cancelled => history[i].execCount = 0

\* C3: a task handed to the native timer is registered there exactly once
\* and its callback fires exactly once: not at all before its native timer
\* fires unless it had started before the release, and once in total after.
C3_HandedOffFiresOnce ==
    \A i \in Issued :
        history[i].handoffs >= 1 =>
            /\ history[i].handoffs = 1
            /\ history[i].execCount <= 1
            /\ Cardinality({t \in TimersOf("handoff") : t.task.id = i}) <= 1

\* C3 (registration alone): what restoreTimeouts() does register.
C3_RegisteredOnce ==
    [][Released =>
        \A i \in DOMAIN taskQueue :
            Cardinality({t \in timers' \ timers :
                            t.kind = "handoff" /\ t.task.id = i}) = 1]_vars

\* C4: the handoff registers the delay max(0, executeAt - T): a handed-off
\* task's native timer is due exactly when its executeAt is, the dedicated
\* timer of a handed-off non-batched task is gone, a task handed off before
\* its deadline has not run while its native timer is not yet due, and a
\* handed-off non-batched task is invoked by nothing but its one native timer.
C4_DeadlineKept ==
    \A t \in TimersOf("handoff") :
        /\ t.fireAt = Max(0, t.task.executeAt)
        /\ \A n \in TimersOf("native") : n.task.id # t.task.id
        /\ t.fireAt > 0 => history[t.task.id].execCount = 0
        /\ ~t.task.batching =>
              Cardinality({u \in TimersOf("handoff") : u.task.id = t.task.id}) = 1

C4_OnlyNativeTimerFires ==
    \A t \in TimersOf("handoff") :
        (~t.task.batching
            /\ history'[t.task.id].execCount > history[t.task.id].execCount)
        => /\ t.fireAt <= 0
           /\ t \notin timers'

C4_HandoffKeepsDeadline == []C4_DeadlineKept /\ [][C4_OnlyNativeTimerFires]_vars

C4_Witness ==
    \E t \in TimersOf("handoff") :
        ~t.task.batching /\ t.fireAt > 0 /\ history[t.task.id].handoffs = 1

\* C5: after an effective releaseGlobalTimers() the registry is empty, the
\* published count is 0, the mode is idle and no frame request, ticker,
\* dedicated timer or cooperative dispatch of the engine is outstanding.
C5_ReleaseLeavesNothing ==
    [][(Released /\ ~destroyed) =>
        /\ taskQueue' = EmptyQueue
        /\ published' = 0
        /\ currentSchedulingMode' = "idle"
        /\ rafs' = {}
        /\ \A t \in timers' : t.kind = "handoff"
        /\ postTasks' = {}]_vars

\* C6: shutdown() always performs the handoff: after it the registry is
\* empty and no driver is armed, whatever the engine's state was.
C6_ShutdownHandsOff ==
    [][(~destroyed /\ destroyed') =>
        /\ taskQueue' = EmptyQueue
        /\ rafs' = {}
        /\ \A t \in timers' : t.kind # "ticker"
        /\ postTasks' = {}]_vars

\* C7: the published count equals the registry's size wherever user code
\* can observe it, also while a callback of an execution cycle runs.
C7_PublishedIsSize == ~destroyed => published = Size

\* C8: within a cycle with budget B, the first min(B, |due user-visible|)
\* callbacks are user-visible: no background task runs before them.
DueHigh(f) == {k \in 1..Len(f.due) : f.due[k].priority = "user-visible"}

C8_PriorityOrder ==
    InCycle =>
        \A j \in 1..Len(frame.ran) :
            j <= Min(currentTasksPerFrame, Cardinality(DueHigh(frame)))
                => frame.ran[j].priority = "user-visible"

C8_Witness ==
    /\ InCycle
    /\ Len(frame.ran) >= 2
    /\ frame.ran[1].priority = "user-visible"
    /\ frame.ran[Len(frame.ran)].priority = "background"

\* C9: a cycle invokes at most currentTasksPerFrame callbacks.
C9_CountBudget == InCycle => Len(frame.ran) <= currentTasksPerFrame

C9_Witness ==
    /\ InCycle
    /\ Len(frame.due) > currentTasksPerFrame
    /\ Len(frame.ran) = currentTasksPerFrame

\* C10: draining N user-visible tasks with a fixed budget B: after k cycles
\* min(N, k*B) callbacks have run, the count published is N - min(N, k*B),
\* and the registry is empty exactly from cycle ceil(N/B) on, the last one.
RECURSIVE SumExec(_)
SumExec(n) == IF n = 0 THEN 0 ELSE history[n].execCount + SumExec(n - 1)

CeilDiv(n, b) == (n + b - 1) \div b

C10_Drain ==
    (AtRest /\ cycles >= 1) =>
        LET N == taskIdCounter
            B == config.initialTasksPerFrame
            done == Min(N, cycles * B)
        IN /\ currentTasksPerFrame = B
           /\ SumExec(N) = done
           /\ published = N - done
           /\ Size = N - done
           /\ (Size = 0) <=> (cycles = CeilDiv(N, B))
           /\ cycles <= CeilDiv(N, B)

C10_Witness ==
    /\ AtRest
    /\ cycles >= 2
    /\ Size = 0
    /\ taskIdCounter > config.initialTasksPerFrame

\* The step picks a task in an Execution Cycle: the cycle's list of started
\* callbacks grows by one.
Picked ==
    /\ frame'.kind = "cycle"
    /\ Len(frame'.ran) = (IF InCycle THEN Len(frame.ran) ELSE 0) + 1

PickedTask == frame'.ran[Len(frame'.ran)]

\* C11: a background task is picked by an Execution Cycle only when the time
\* elapsed in the cycle is strictly below frameTimeBudgetMs and fewer than
\* currentTasksPerFrame tasks have been executed in it; both measures only
\* grow within a cycle, so once one test fails no background task is picked
\* in the rest of the cycle.
C11_BackgroundBudget ==
    [][/\ (Picked /\ PickedTask.priority = "background") =>
            /\ frame'.elapsed < config.frameTimeBudgetMs
            /\ frame'.executed < currentTasksPerFrame'
       /\ (InCycle /\ frame'.kind = "cycle") =>
            /\ frame'.elapsed >= frame.elapsed
            /\ frame'.executed >= frame.executed
            /\ currentTasksPerFrame' = currentTasksPerFrame]_vars

\* A background task is running, the time budget is used up and another due
\* background task is waiting in the cycle's list.
C11_Witness ==
    /\ InCycle
    /\ frame.phase = "low"
    /\ frame.idx < Len(frame.low)
    /\ frame.elapsed >= config.frameTimeBudgetMs
    /\ frame.executed + 1 < currentTasksPerFrame

C14_BudgetInRange ==
    /\ 1 <= currentTasksPerFrame
    /\ currentTasksPerFrame <= config.maxTasksPerFrame

\* C15: with the dynamic budget disabled the budget equals
\* initialTasksPerFrame in every reachable state.
C15_FixedBudget ==
    ~config.dynamicBudgetEnabled => currentTasksPerFrame = config.initialTasksPerFrame

\* A frame-paced cycle with the dynamic budget disabled has run every due
\* task but the one whose callback is running, and has already lasted longer
\* than the time budget; the enabled controller would have room to shrink.
C15_Witness ==
    /\ ~config.dynamicBudgetEnabled
    /\ InCycle
    /\ currentSchedulingMode = "rAF"
    /\ frame.elapsed > config.frameTimeBudgetMs
    /\ Len(frame.ran) = Len(frame.due)
    /\ currentTasksPerFrame > 1

\* The registered tasks scheduled with batching=false.
NonBatched == {i \in DOMAIN taskQueue : ~taskQueue[i].batching}

\* No cycle lists a non-batched task as due and none holds a cooperative
\* controller or dispatch.
C16_NeverBatched ==
    /\ InCycle => \A k \in 1..Len(frame.due) : frame.due[k].batching
    /\ \A i \in NonBatched :
          taskQueue[i].postTaskController = "none" /\ i \notin postTasks

\* A callback of a non-batched task starts only in the step in which its
\* dedicated timer, or the native timer it was handed to, fires.
C16_OnlyItsTimerFires ==
    \A i \in Issued :
       (/\ history'[i].execCount > history[i].execCount
        /\ \/ i \in NonBatched
           \/ \E t \in timers : t.task.id = i /\ ~t.task.batching)
       => /\ AtRest
          /\ frame'.kind \in {"immediate", "handoff"}
          /\ \E t \in timers \ timers' :
                t.kind \in {"native", "handoff"} /\ t.task.id = i

\* C16: a task scheduled with batching=false is never selected by a cycle's
\* due-task scan and never enrolled with the cooperative driver; in every
\* mode its callback is invoked only by its dedicated timer, or by the
\* native timer after handoff.
C16_NonBatchedBypass == []C16_NeverBatched /\ [][C16_OnlyItsTimerFires]_vars

\* A cycle is running whose scan, at its start, passed over a non-batched
\* task that was due.
C16_Witness ==
    /\ InCycle
    /\ frame.elapsed = 0
    /\ \E i \in NonBatched : taskQueue[i].executeAt <= Now

\* The callback of task i is running, started by its dedicated timer.
RunningImmediate(i) == frame.kind = "immediate" /\ frame.task = i

\* C17: a task scheduled with batching=false and never cancelled executes
\* exactly once, when its dedicated timer of the nominal delay fires,
\* whatever the visibility, the mode and the budget: until its callback
\* starts it holds exactly one dedicated timer set to its deadline, it has
\* executed once while that callback runs, and once it has executed no
\* native timer is left that would run it again.
C17_ExactlyOnce ==
    /\ \A i \in NonBatched :
          IF RunningImmediate(i)
          THEN history[i].execCount = 1
          ELSE /\ history[i].execCount = 0
               /\ \E t \in TimersOf("native") :
                     /\ t.id = taskQueue[i].nativeTimerId
                     /\ t.task.id = i
                     /\ t.fireAt = taskQueue[i].executeAt
                     /\ \A u \in TimersOf("native") : u.task.id = i => u = t
    /\ \A t \in TimersOf("handoff") :
          ~t.task.batching => history[t.task.id].execCount = 0

\* C18: whenever a batched task is pending and no operation is in progress,
\* the mode is the selector's decision for the current strategy, cooperative
\* support and visibility; in particular it is never frame-paced while the
\* document is hidden.
C18_ModeIsSelected ==
    (AtRest /\ HasBatchedTasks(State)) =>
        /\ currentSchedulingMode =
              SelectMode(config.primaryStrategy, isPostTaskSupported, hidden)
        /\ ~(hidden /\ currentSchedulingMode = "rAF")

\* Until destroy() removes the visibility listener the mode does follow the
\* selector.
ModeIsSelectedUntilDestroy == ~destroyed => C18_ModeIsSelected

\* C19: whenever no batched task is registered and no operation is in
\* progress, the mode is idle and no driver is armed: no frame request, no
\* background ticker, no cooperative dispatch.
C19_IdleWhenEmpty ==
    (AtRest /\ ~destroyed /\ ~HasBatchedTasks(State)) =>
        /\ currentSchedulingMode = "idle"
        /\ rafs = {}
        /\ TimersOf("ticker") = {}
        /\ postTasks = {}

\* C20: at most one driver is active: at most one outstanding frame request
\* or background ticker in all, and none of them together with a live
\* cooperative dispatch.
C20_SingleDriver ==
    ~destroyed =>
        /\ Cardinality(rafs) + Cardinality(TimersOf("ticker")) <= 1
        /\ postTasks # {} => rafs = {} /\ TimersOf("ticker") = {}

C22_NoEarlyExecution ==
    [][\A i \in Issued :
          history'[i].execCount > history[i].execCount =>
             /\ i \in DOMAIN taskQueue => taskQueue[i].executeAt <= Now
             /\ \A t \in timers \ timers' :
                   t.task.id = i => t.task.executeAt <= Now
             /\ Picked => PickedTask.executeAt <= Now]_vars

\* A cooperative dispatch is running one task while another batched task,
\* not due yet, holds a live dispatch that the host has not run.
C22_Witness ==
    /\ frame.kind = "immediate"
    /\ \E j \in DOMAIN taskQueue :
          /\ j # frame.task
          /\ j \in postTasks
          /\ taskQueue[j].postTaskController = "live"
          /\ taskQueue[j].executeAt > Now

\* The ids that name a registered task or a callback handed to the native
\* timer.
IdsInUse == DOMAIN taskQueue \cup {t.task.id : t \in TimersOf("handoff")}

\* C23: task ids are unique and strictly increasing: the counter never
\* decreases, a schedule call raises it by one and registers the task under
\* the new value, which is greater than every id issued before and names no
\* other task; every entry is registered under its own id.
C23_FreshIds ==
    /\ [](\A i \in DOMAIN taskQueue : taskQueue[i].id = i /\ i <= taskIdCounter)
    /\ [][/\ taskIdCounter' >= taskIdCounter
          /\ taskIdCounter' # taskIdCounter =>
                /\ taskIdCounter' = taskIdCounter + 1
                /\ taskIdCounter' \in DOMAIN taskQueue'
          /\ \A k \in DOMAIN taskQueue' \ DOMAIN taskQueue :
                /\ k = taskIdCounter'
                /\ k = taskIdCounter + 1
                /\ \A i \in IdsInUse \cup Issued : i < k]_vars

\* The second id was issued after the first task had been handed to the
\* native timer by a release.
C23_Witness ==
    /\ taskIdCounter = 2
    /\ 2 \in DOMAIN taskQueue
    /\ 1 \notin DOMAIN taskQueue
    /\ history[1].handoffs = 1
    /\ history[1].execCount = 0

\* The step registers nothing that would run task id again.
NoRetry(id) ==
    /\ \A t \in timers' \ timers : t.task.id # id
    /\ id \in postTasks' => id \in postTasks

\* The state a finished cycle leaves: the count republished, and the driver
\* of the mode re-armed if a batched task remains, the mode idle otherwise.
CycleClosed ==
    /\ AtRest'
    /\ ~destroyed' => published' = Size'
    /\ IF HasBatchedTasks(State')
       THEN /\ currentSchedulingMode' = "rAF" => animationFrameId' \in rafs'
            /\ currentSchedulingMode' = "timeout" =>
                  \E t \in timers' : t.kind = "ticker" /\ t.id = backgroundTickerId'
            /\ currentSchedulingMode' # "idle"
       ELSE currentSchedulingMode' = "idle"

\* C24: a callback that throws is isolated. In a cycle the faulting task is
\* removed and counted, the next due task the loop guards allow is started,
\* and when none is the cycle republishes the count and re-arms or idles;
\* thrown from a dedicated timer or a cooperative dispatch the task is
\* removed and the count republished; in no case is anything registered
\* that would run the faulting task again.
C24_ErrorIsolation ==
    [][CallbackThrow =>
         CASE frame.kind = "cycle" ->
                LET f == [frame EXCEPT !.idx = @ + 1, !.executed = @ + 1]
                    j == IF f.phase = "high" THEN 1 ELSE f.idx
                    id == CurrentTask(frame).id
                IN /\ id \notin DOMAIN taskQueue'
                   /\ NoRetry(id)
                   /\ IF HighLoopRuns(State, f)
                      THEN Picked /\ PickedTask = f.high[f.idx]
                      ELSE IF LowLoopRuns(State, f, j)
                      THEN Picked /\ PickedTask = f.low[j]
                      ELSE CycleClosed
           [] frame.kind = "immediate" ->
                /\ frame.task \notin DOMAIN taskQueue'
                /\ ~destroyed' => published' = Size'
                /\ AtRest'
                /\ NoRetry(frame.task)
           [] frame.kind = "handoff" -> AtRest' /\ NoRetry(frame.task)]_vars

\* A due task of a cycle is running after an earlier task of the same cycle
\* threw.
C24_Witness ==
    /\ InCycle
    /\ frame.threw
    /\ Len(frame.ran) >= 2

\* C25: a cooperative dispatch that fails with anything but an abort removes
\* its task, and only it, and republishes the count; one that fails with an
\* abort leaves the registry and the published count as they are.
C25_DriverError ==
    [][/\ \A id \in postTasks :
             PostTaskError(id) =>
                /\ taskQueue' = [i \in DOMAIN taskQueue \ {id} |-> taskQueue[i]]
                /\ id \notin postTasks'
                /\ ~destroyed => published' = Size'
       /\ \A id \in DOMAIN taskQueue :
             PostTaskAborted(id) => UNCHANGED <<taskQueue, published>>]_vars

\* A task has left the registry without having been executed, cancelled or
\* handed off: its dispatch failed; the count was republished.
C25_Witness ==
    /\ ~destroyed
    /\ AtRest
    /\ published = Size
    /\ \E i \in Issued :
          /\ i \notin DOMAIN taskQueue
          /\ history[i].execCount = 0
          /\ ~history[i].cancelled
          /\ history[i].handoffs = 0

\* C26: construction fails, producing no engine, whenever the host lacks
\* window.performance or window.requestAnimationFrame, and succeeds when
\* both are present, with or without scheduler.postTask.
C26_ConstructionGuard ==
    /\ engine = "created" => host.performance /\ host.requestAnimationFrame
    /\ engine = "failed" => ~(host.performance /\ host.requestAnimationFrame)

\* C27: for every delay input the executeAt stored by a schedule call is not
\* before the time of the call.
C27_NonNegativeDelay ==
    [][\A k \in DOMAIN taskQueue' \ DOMAIN taskQueue :
          taskQueue'[k].executeAt >= Now]_vars

\* C28: overrideTimeouts() on an engine that is overridden and
\* restoreTimeouts() on one that is not change nothing, and isOverridden is
\* changed only by these two operations (destroy() calls restoreTimeouts()).
C28_Idempotent ==
    [][/\ (OverrideTimeouts /\ isOverridden) => UNCHANGED vars
       /\ (RestoreTimeouts /\ ~isOverridden) => UNCHANGED vars
       /\ isOverridden' # isOverridden =>
             \/ OverrideTimeouts /\ ~isOverridden /\ isOverridden'
             \/ RestoreTimeouts /\ isOverridden /\ ~isOverridden'
             \/ Destroy /\ isOverridden /\ ~isOverridden']_vars

\* An engine that is not overridden, with a batched task pending and its
\* driver armed: everything a release would tear down.
C28_Witness ==
    /\ ~isOverridden
    /\ ~destroyed
    /\ AtRest
    /\ HasBatchedTasks(State)
    /\ currentSchedulingMode # "idle"
    /\ history[1].handoffs = 1

\* C29: cancelTask(id) for an id that is not in the registry changes
\* nothing: registry, mode, drivers, budget and published count.
C29_CancelUnknown ==
    [][\A id \in 1..MaxTasks :
          (CancelTask(id) /\ id \notin DOMAIN taskQueue) => UNCHANGED vars]_vars

\* The first task was handed to the native timer, which has not fired, and
\* another task is registered: cancelTask(1) finds no entry.
C29_Witness ==
    /\ 1 \notin DOMAIN taskQueue
    /\ \E t \in TimersOf("handoff") : t.task.id = 1
    /\ taskQueue # EmptyQueue
    /\ ~destroyed

\* C30: a task is in the registry when its callback is started by a cycle,
\* by its dedicated timer or by a cooperative dispatch; the entry is deleted
\* only after the callback.
C30_RegisteredWhenInvoked ==
    [][\A i \in Issued :
          (/\ history'[i].execCount > history[i].execCount
           /\ frame'.kind \in {"cycle", "immediate"})
          => i \in DOMAIN taskQueue']_vars

\* This step ends an execution cycle: the last callback of a cycle returns
\* or throws and no further task is started, or a frame or the background
\* ticker fires in a cycle mode and no task is started.
CycleEnds ==
    /\ AtRest'
    /\ \/ InCycle /\ (CallbackReturn \/ CallbackThrow)
       \/ /\ AtRest
          /\ currentSchedulingMode \in {"rAF", "timeout"}
          /\ \/ \E h \in rafs : RafFire(h)
             \/ \E t \in TimersOf("ticker") : TimerFire(t)

\* The ticks armed after the step: frame requests and background tickers.
TicksArmed == Cardinality(rafs') + Cardinality({t \in timers' : t.kind = "ticker"})

\* C31: after every execution cycle, if a batched task remains exactly one
\* tick is armed and it is of the current mode's kind (a frame request in
\* rAF mode, a background ticker in timeout mode); if none remains the mode
\* is idle and no tick is armed.
C31_RearmOrIdle ==
    [][CycleEnds =>
         IF HasBatchedTasks(State')
         THEN /\ TicksArmed = 1
              /\ currentSchedulingMode' \in {"rAF", "timeout"}
              /\ currentSchedulingMode' = "rAF" => rafs' = {animationFrameId'}
              /\ currentSchedulingMode' = "timeout" =>
                    \E t \in timers' : t.kind = "ticker" /\ t.id = backgroundTickerId'
         ELSE /\ currentSchedulingMode' = "idle"
              /\ TicksArmed = 0]_vars

\* The batched tasks of the registry.
Batched == {i \in DOMAIN taskQueue : taskQueue[i].batching}

C33_BudgetFrame ==
    [][currentTasksPerFrame' # currentTasksPerFrame =>
          CycleEnds /\ currentSchedulingMode = "rAF"]_vars

\* The budget was adjusted, and the engine is now in the timeout mode with a
\* background ticker armed.
C33_Witness ==
    /\ currentTasksPerFrame # config.initialTasksPerFrame
    /\ currentSchedulingMode = "timeout"
    /\ TimersOf("ticker") # {}

\* C34: a task whose callback was started by a dispatch that had been
\* aborted too late is invoked at most once, whatever else was registered
\* for it: a replacement dispatch, a cycle, or anything the callback does.
C34_LateDispatchOnce ==
    \A i \in lateAborts.fired : history[i].execCount <= 1

\* C35: a visibility change leaves the tasks as they are: the same ids are
\* registered, each with the same executeAt, priority, batching flag and
\* dedicated timer; the published count, the id counter, the interception
\* flag, the budget, the dedicated and handed-off native timers and what
\* has run so far do not change. Only the mode, the frame request, the
\* background ticker and the cooperative dispatches with their controllers
\* may change.
C35_VisibilityFrame ==
    [][VisibilityChange =>
         /\ DOMAIN taskQueue' = DOMAIN taskQueue
         /\ \A i \in DOMAIN taskQueue :
               /\ taskQueue'[i].id = taskQueue[i].id
               /\ taskQueue'[i].executeAt = taskQueue[i].executeAt
               /\ taskQueue'[i].priority = taskQueue[i].priority
               /\ taskQueue'[i].batching = taskQueue[i].batching
               /\ taskQueue'[i].nativeTimerId = taskQueue[i].nativeTimerId
               /\ ~taskQueue[i].batching =>
                     taskQueue'[i].postTaskController = "none"
         /\ published' = published
         /\ {t \in timers' : t.kind # "ticker"} = {t \in timers : t.kind # "ticker"}
         /\ UNCHANGED <<taskIdCounter, isOverridden, currentTasksPerFrame,
                        history, destroyed>>]_vars

\* After a visibility change: a batched task whose dispatch was aborted
\* waits for a frame, next to a non-batched task with its dedicated timer.
C35_Witness ==
    /\ AtRest
    /\ ~hidden
    /\ currentSchedulingMode = "rAF"
    /\ rafs # {}
    /\ \E i \in Batched : taskQueue[i].postTaskController = "aborted"
    /\ \E i \in NonBatched : \E t \in TimersOf("native") : t.id = taskQueue[i].nativeTimerId

\* At rest every armed dedicated timer belongs to a registered task that
\* holds its id, and every outstanding cooperative dispatch belongs to a
\* registered task whose controller is not aborted.
C36_NoOrphanHandle ==
    AtRest =>
        /\ \A t \in TimersOf("native") :
              /\ t.task.id \in DOMAIN taskQueue
              /\ taskQueue[t.task.id].nativeTimerId = t.id
        /\ \A i \in postTasks :
              /\ i \in DOMAIN taskQueue
              /\ taskQueue[i].postTaskController = "live"

\* cancelTask(id) of a registered task removes the entry and, in the same
\* step, its dedicated timer and its cooperative dispatch.
C36_CancelReleases ==
    \A id \in DOMAIN taskQueue :
        CancelTask(id) =>
            /\ id \notin DOMAIN taskQueue'
            /\ \A t \in timers' : t.kind = "native" => t.task.id # id
            /\ id \notin postTasks'

\* C36: no orphan handles. At rest every armed dedicated timer and every
\* outstanding cooperative dispatch refers to a task in the registry, and
\* cancelTask releases the handle of the task it removes in the same step.
C36_NoOrphans == []C36_NoOrphanHandle /\ [][C36_CancelReleases]_vars

\* At rest after a cancellation: a cancelled task, and a registered
\* non-batched task whose dedicated timer is armed.
C36_Witness ==
    /\ AtRest
    /\ \E i \in Issued : history[i].cancelled
    /\ \E i \in NonBatched : \E t \in TimersOf("native") : t.task.id = i

\* The ids of the due set an execution cycle computed at its start.
DueIds(f) == {f.due[k].id : k \in 1..Len(f.due)}

\* C37: a task scheduled while a callback of an execution cycle runs is not
\* executed in that cycle: it is not in the due set the cycle computed at
\* its start, the cycle keeps that set to its end, and every task the cycle
\* starts is taken from it.
C37_NotInSameCycle ==
    [][InCycle =>
         /\ \A k \in DOMAIN taskQueue' \ DOMAIN taskQueue : k \notin DueIds(frame)
         /\ InCycle' =>
               /\ frame'.due = frame.due
               /\ Picked => PickedTask.id \in DueIds(frame)]_vars

\* A callback of a cycle is running and no time has passed since the cycle
\* began; a batched task that is due is registered and is not in the
\* cycle's due set, so the callback scheduled it; the count budget is not
\* used up.
C37_Witness ==
    /\ InCycle
    /\ frame.elapsed = 0
    /\ Len(frame.ran) < currentTasksPerFrame
    /\ \E k \in Batched :
          /\ k \notin DueIds(frame)
          /\ taskQueue[k].executeAt <= Now
          /\ taskQueue[k].priority = "user-visible"

\* The tasks whose callback restoreTimeouts() handed to the native timer and
\* whose native timer has not fired yet.
HandedOff == {t.task.id : t \in TimersOf("handoff")}

\* C38: once restoreTimeouts() has handed a task to the native timer its id
\* no longer controls it. cancelTask of that id changes nothing; the native
\* timer stays armed through every step of the engine until it fires (time
\* passing only brings it nearer); and when it fires the callback is
\* invoked.
C38_HandoffBeyondCancel ==
    [][/\ \A id \in HandedOff : CancelTask(id) => UNCHANGED vars
       /\ \A t \in TimersOf("handoff") :
             IF TimerFire(t)
             THEN frame' = [kind |-> "handoff", task |-> t.task.id]
             ELSE \E u \in timers' :
                     /\ u.id = t.id
                     /\ u.kind = "handoff"
                     /\ u.task.id = t.task.id
                     /\ u.fireAt <= t.fireAt]_vars

\* A handed-off callback has fired and is running while the native timer of
\* another handed-off task is still armed.
C38_Witness ==
    /\ frame.kind = "handoff"
    /\ HandedOff # {}
    /\ frame.task \notin HandedOff
    /\ ~isOverridden

\* C39: whenever every constructed engine that installed its wrappers has
\* called restoreTimeouts(), so that no engine is overriding, the global
\* entry points are the host's native ones.
C39_NativeAfterRelease ==
    (\A e \in Engines : ~interception.engines[e].isOverridden) =>
        interception.window = Native

====
